---- MODULE Spec2Model ----
(***************************************************************************)
(* A model of pcl::recognition::ObjRecRANSAC                               *)
(* (recognition/ransac_based/obj_rec_ransac.h): the rotation space that    *)
(* clusters rigid transforms, the model registration, the number of RANSAC *)
(* iterations, the oriented point pair signature, the rigid transform      *)
(* between two oriented point pairs, two callers of the rotation space,    *)
(* the stages of recognize and the conflict resolution between scored      *)
(* hypotheses.                                                             *)
(*                                                                         *)
(* Real numbers.  The accumulators of the rotation space are modelled with *)
(* exact rationals <<n, d>> (d > 0, lowest terms), so that 1.0f/n and the  *)
(* multiplication by it are computed, not assumed.  The signature is       *)
(* modelled in a fixed point format of SigScale units per 1.0 with         *)
(* rounding, so that a dot product of two unit vectors can exceed 1.0 as   *)
(* it can in float.                                                        *)
(***************************************************************************)
EXTENDS Integers, Sequences, FiniteSets, Bags, TLC

VARIABLES
  \* ---- RotationSpace (lines 146-321)
  rot_leaves,          \* rot_octree_: created leaf id -> user data (0 is NULL, else a Cell pointer)
  cells,               \* the heap of RotationSpace::Cell objects; a pointer is an index
  full_cells_,         \* std::list<RotationSpace::Cell*>
  t_3dId_,             \* RotationSpace::t_3dId_
  out,                 \* the list the hypotheses are pushed back to
  hypotheses_counter,  \* the counter passed by reference
  \* history of the calls on the rotation space
  accepted,            \* bag of the accepted insertions [leaf, model, aa, t]
  last_op,             \* "none" | "add" | "avg"
  last_in,             \* arguments of the last addRigidTransform
  last_ret,            \* its return value
  num_adds,            \* number of addRigidTransform calls
  rej_on_full,         \* a call returned false while the list of full cells was not empty
  num_avgs,            \* number of computeAverageRigidTransformInCells calls
  ins_after_avg,       \* an insertion was accepted after an averaging
  fresh_avg,           \* no insertion was accepted since the last averaging
  accepted_late,       \* the bag of the insertions accepted after the first averaging
  \* ---- ModelLibrary model_library_ (line 626)
  models_,             \* object name -> model
  addModel_ret,        \* the return value of the last addModel
  addModel_in,         \* the arguments of the last addModel
  first_added,         \* object name -> the model of the first successful addModel
  num_addModel,        \* number of addModel calls
  \* ---- computeNumberOfIterations (lines 496-509)
  relative_obj_size_,  \* the parameter, in units of 1
  success_probability, \* the argument of the last call, in units of 1/ProbDen
  num_iterations,      \* its result (0 before the first call)
  prev_probability,    \* the argument and the result of the call before
  prev_iterations,
  \* ---- compute_oriented_point_pair_signature (lines 594-610)
  opp,                 \* the oriented point pair [p1, n1, p2, n2]
  signature,           \* the signature of ((p1, n1), (p2, n2)), <<>> before the call
  signature_swapped,   \* the signature of ((p2, n2), (p1, n1))
  \* ---- computeRigidTransform (lines 542-592)
  rt_in,               \* the two oriented point pairs [a1, a1_n, b1, b1_n, a2, a2_n, b2, b2_n]
  rt_out,              \* float[12]: the rotation, row major, and the translation; <<>> before
  \* ---- two callers of RotationSpace::addRigidTransform (lines 270-303, 169-175)
  serialized,          \* the callers take a lock around the call
  lock,                \* the caller that holds the lock, 0 if none
  th_pc,               \* caller -> its position in the call
  th_in,               \* caller -> the arguments [model, aa, t] of its call
  th_cell,             \* caller -> rot_cell, the cell it works on (0: NULL)
  th_reg,              \* caller -> the value it read and has not written back
  th_ret,              \* caller -> the return value of its call
  \* ---- recognize (lines 401-410, 492, 511-540)
  rec_pc,              \* the position of the call of recognize
  rec_mode_,           \* Recognition_Mode
  scene_leaves,        \* the number of full leaves of the scene octree
  rec_i,               \* the iteration of the sampling loop
  sampled_oriented_point_pairs_,  \* std::list<OrientedPointPair>: its size
  num_hypotheses,      \* the number of hypotheses generated, then grouped
  \* ---- the conflict resolution (lines 533-540, 620-633)
  accepted_hypotheses_,   \* std::vector<Hypothesis*>: the scored hypotheses
  intersection_fraction_, \* the overlap threshold, a rational
  graph,                  \* ORRGraph: the undirected edges between hypotheses
  recognized_objects,     \* std::list<ObjRecRANSAC::Output>
  selected,               \* the hypothesis each output was made from
  rec_stage               \* "tested" | "graph" | "filtered"

clusterVars == <<rot_leaves, cells, full_cells_, t_3dId_, out, hypotheses_counter,
                 accepted, last_op, last_in, last_ret, num_adds, rej_on_full,
                 num_avgs, ins_after_avg, fresh_avg, accepted_late>>

libraryVars == <<models_, addModel_ret, addModel_in, first_added, num_addModel>>

iterVars == <<relative_obj_size_, success_probability, num_iterations, prev_probability,
              prev_iterations>>

sigVars == <<opp, signature, signature_swapped>>

transformVars == <<rt_in, rt_out>>

raceVars == <<serialized, lock, th_pc, th_in, th_cell, th_reg, th_ret>>

recognizeVars == <<rec_pc, rec_mode_, scene_leaves, rec_i, sampled_oriented_point_pairs_,
                   num_hypotheses>>

resolverVars == <<accepted_hypotheses_, intersection_fraction_, graph, recognized_objects,
                  selected, rec_stage>>

vars == <<clusterVars, libraryVars, iterVars, sigVars, transformVars, raceVars, recognizeVars,
          resolverVars>>

-----------------------------------------------------------------------------
(* Bounds of the model *)

MaxAdds == 3
MaxAvgs == 2
\* calls of addModel
MaxAddModel == 3
\* the success probabilities are the multiples of 1/ProbDen below 1
ProbDen == 8
\* the relative object sizes are 1 .. MaxRelSize
MaxRelSize == 5
\* the coordinates of the points of a pair are 0 .. MaxCoord
MaxCoord == 1
\* the most scored hypotheses
MaxHypotheses == 3

-----------------------------------------------------------------------------
(* Exact rationals *)

Abs(x) == IF x < 0 THEN -x ELSE x

RECURSIVE GCD(_, _)
GCD(a, b) == IF b = 0 THEN a ELSE GCD(b, a % b)

Q(n, d) ==
  LET g == GCD(Abs(n), Abs(d))
      s == IF d < 0 THEN -1 ELSE 1
  IN  <<(s * n) \div g, (s * d) \div g>>

QInt(i) == <<i, 1>>
QAdd(a, b) == Q(a[1] * b[2] + b[1] * a[2], a[2] * b[2])
QMul(a, b) == Q(a[1] * b[1], a[2] * b[2])

Vec3(v) == <<QInt(v[1]), QInt(v[2]), QInt(v[3])>>

\* aux::set3 (v, 0.0f)
Zero3 == <<QInt(0), QInt(0), QInt(0)>>
\* aux::add3 (a, b): a += b
add3(a, b) == <<QAdd(a[1], b[1]), QAdd(a[2], b[2]), QAdd(a[3], b[3])>>
\* aux::mult3 (v, s): v *= s
mult3(v, s) == <<QMul(v[1], s), QMul(v[2], s), QMul(v[3], s)>>

-----------------------------------------------------------------------------
(* Units of the rotation space: one unit is 3 degrees.                     *)

\* AUX_PI_FLOAT: 180 degrees.  The bounds are +-(AUX_PI_FLOAT + 0.000000001f),
\* which is AUX_PI_FLOAT again in single precision.
AuxPi == 60
\* 6.0f*AUX_DEG_TO_RADIANS, the size of a leaf of rot_octree_
RotVoxelSize == 2
\* half the extent of the root of rot_octree_: the smallest leaf size times a
\* power of two that covers the bounds (32 leaves of 6 degrees)
RotRootHalf == 64

Models == {1, 2}

\* The raw transforms (axis-angle vector, translation) the generator hands in:
\* two in the same leaf, one in another leaf and on the bound, and two out of
\* the bounds.
RawTransforms ==
  { [aa |-> <<0, 0, 0>>,   t |-> <<0, 0, 0>>],
    [aa |-> <<1, 1, 0>>,   t |-> <<4, 2, 0>>],
    [aa |-> <<60, -60, 0>>, t |-> <<0, 0, 3>>],
    [aa |-> <<61, 0, 0>>,  t |-> <<4, 2, 0>>],
    [aa |-> <<0, 0, -62>>, t |-> <<0, 0, 0>>] }
\* the id of the leaf of the translation octree the rotation space belongs to
TransId == <<1, 0, 2>>

-----------------------------------------------------------------------------
(* ORROctree::createLeaf and the leaf's 3d id *)

InBounds(aa) == \A i \in 1..3 : aa[i] >= -AuxPi /\ aa[i] <= AuxPi

get3dId(aa) == [i \in 1..3 |-> (aa[i] + RotRootHalf) \div RotVoxelSize]

\* The leaf that contains the point, created if it is not there; NULL (0 leaves
\* created) if the point is out of the bounds of the octree.
createLeaf(leaves, aa) ==
  IF ~InBounds(aa)
    THEN [leaf |-> <<>>, null |-> TRUE, leaves |-> leaves]
    ELSE LET id == get3dId(aa)
         IN  [leaf |-> id, null |-> FALSE,
              leaves |-> IF id \in DOMAIN leaves THEN leaves
                         ELSE [l \in DOMAIN leaves \cup {id} |->
                                 IF l = id THEN 0 ELSE leaves[l]]]

-----------------------------------------------------------------------------
(* RotationSpace::Cell::Entry *)

Entry_new == [axis_angle_ |-> Zero3, translation_ |-> Zero3, num_transforms_ |-> 0]

\* the entry without the increment of num_transforms_
Entry_addRigidTransform_NoCount(e, axis_angle, translation) ==
  [axis_angle_     |-> add3(e.axis_angle_, axis_angle),
   translation_    |-> add3(e.translation_, translation),
   num_transforms_ |-> e.num_transforms_]

Entry_addRigidTransform(e, axis_angle, translation) ==
  [axis_angle_     |-> add3(e.axis_angle_, axis_angle),
   translation_    |-> add3(e.translation_, translation),
   num_transforms_ |-> e.num_transforms_ + 1]

\* the average with the early return taken for two transforms as well
Entry_computeAverageRigidTransform_OffByOne(e) ==
  IF e.num_transforms_ <= 2
    THEN e
    ELSE LET factor == Q(1, e.num_transforms_)
         IN  [axis_angle_     |-> mult3(e.axis_angle_, factor),
              translation_    |-> mult3(e.translation_, factor),
              num_transforms_ |-> 1]

\* the average that leaves num_transforms_ as it is
Entry_computeAverageRigidTransform_NoReset(e) ==
  IF e.num_transforms_ < 2
    THEN e
    ELSE LET factor == Q(1, e.num_transforms_)
         IN  [axis_angle_     |-> mult3(e.axis_angle_, factor),
              translation_    |-> mult3(e.translation_, factor),
              num_transforms_ |-> e.num_transforms_]

\* the average that resets num_transforms_ to zero
Entry_computeAverageRigidTransform_ResetZero(e) ==
  IF e.num_transforms_ < 2
    THEN e
    ELSE LET factor == Q(1, e.num_transforms_)
         IN  [axis_angle_     |-> mult3(e.axis_angle_, factor),
              translation_    |-> mult3(e.translation_, factor),
              num_transforms_ |-> 0]

Entry_computeAverageRigidTransform(e) ==
  IF e.num_transforms_ < 2
    THEN e
    ELSE LET factor == Q(1, e.num_transforms_)
         IN  [axis_angle_     |-> mult3(e.axis_angle_, factor),
              translation_    |-> mult3(e.translation_, factor),
              num_transforms_ |-> 1]

-----------------------------------------------------------------------------
(* RotationSpace::Cell *)

Cell_new == [model_to_entry_ |-> <<>>, rot_3dId_ |-> <<0, 0, 0>>, t_3dId_ |-> <<0, 0, 0>>]

\* std::map::operator[]: the entry of the key, default constructed if absent
MapAt(m, k) == IF k \in DOMAIN m THEN m[k] ELSE Entry_new

MapPut(m, k, e) == [x \in DOMAIN m \cup {k} |-> IF x = k THEN e ELSE m[x]]

Cell_addRigidTransform(c, model, axis_angle, translation) ==
  [c EXCEPT !.model_to_entry_ =
     MapPut(@, model, Entry_addRigidTransform(MapAt(@, model), axis_angle, translation))]

\* aux::axisAngleToRotationMatrix: the matrix is kept as a term over the
\* axis-angle vector it is computed from.
axisAngleToRotationMatrix(aa) == [rotation_of |-> aa]

\* ObjRecRANSAC::Hypothesis (obj_model) with the fields the cell fills in
Hypothesis(c, model, e) ==
  [obj_model_ |-> model,
   rigid_transform_ |-> [R |-> axisAngleToRotationMatrix(e.axis_angle_),
                         t |-> e.translation_],
   match_confidence_ |-> -1,
   explained_pixels_ |-> {},
   rot_3dId_ |-> c.rot_3dId_,
   t_3dId_ |-> c.t_3dId_]

Min(S) == CHOOSE x \in S : \A y \in S : x <= y

\* the loop over model_to_entry_, in the order of the keys
RECURSIVE EntriesLoop(_, _, _)
EntriesLoop(c, todo, o) ==
  IF todo = {} THEN [cell |-> c, out |-> o]
  ELSE LET m == Min(todo)
           e == Entry_computeAverageRigidTransform(c.model_to_entry_[m])
           c2 == [c EXCEPT !.model_to_entry_[m] = e]
       IN  EntriesLoop(c2, todo \ {m}, Append(o, Hypothesis(c2, m, e)))

\* the cell that counts itself, not its entries
Cell_computeAverageRigidTransformInEntries_CountCells(c, o, counter) ==
  LET r == EntriesLoop(c, DOMAIN c.model_to_entry_, o)
  IN  [cell |-> r.cell, out |-> r.out, hypotheses_counter |-> counter + 1]

Cell_computeAverageRigidTransformInEntries(c, o, counter) ==
  LET r == EntriesLoop(c, DOMAIN c.model_to_entry_, o)
  IN  [cell |-> r.cell, out |-> r.out,
       hypotheses_counter |-> counter + Cardinality(DOMAIN c.model_to_entry_)]

-----------------------------------------------------------------------------
(* RotationSpace *)

\* the rotation space that allocates and lists the cell before it looks at the leaf
RotationSpace_addRigidTransform_CellFirst(leaves, heap, full, tid, model, axis_angle, translation) ==
  LET r == createLeaf(leaves, axis_angle)
      ptr == Len(heap) + 1
  IN  IF r.null
        THEN [ret |-> FALSE, leaves |-> r.leaves, cells |-> Append(heap, Cell_new),
              full_cells_ |-> Append(full, ptr)]
        ELSE IF r.leaves[r.leaf] = 0
          THEN LET rot_cell == [Cell_new EXCEPT !.rot_3dId_ = r.leaf, !.t_3dId_ = tid]
               IN  [ret |-> TRUE,
                    leaves |-> [r.leaves EXCEPT ![r.leaf] = ptr],
                    cells |-> Append(heap,
                       Cell_addRigidTransform(rot_cell, model, Vec3(axis_angle), Vec3(translation))),
                    full_cells_ |-> Append(full, ptr)]
          ELSE LET old == r.leaves[r.leaf]
               IN  [ret |-> TRUE,
                    leaves |-> r.leaves,
                    cells |-> [heap EXCEPT ![old] =
                       Cell_addRigidTransform(@, model, Vec3(axis_angle), Vec3(translation))],
                    full_cells_ |-> full]

\* the rotation space that makes a new cell for every accepted transform
RotationSpace_addRigidTransform_AlwaysNewCell(leaves, heap, full, tid, model, axis_angle, translation) ==
  LET r == createLeaf(leaves, axis_angle)
  IN  IF r.null
        THEN [ret |-> FALSE, leaves |-> r.leaves, cells |-> heap, full_cells_ |-> full]
        ELSE LET ptr == Len(heap) + 1
                 rot_cell == [Cell_new EXCEPT !.rot_3dId_ = r.leaf, !.t_3dId_ = tid]
             IN  [ret |-> TRUE,
                  leaves |-> [r.leaves EXCEPT ![r.leaf] = ptr],
                  cells |-> Append(heap,
                     Cell_addRigidTransform(rot_cell, model, Vec3(axis_angle), Vec3(translation))),
                  full_cells_ |-> Append(full, ptr)]

RotationSpace_addRigidTransform(leaves, heap, full, tid, model, axis_angle, translation) ==
  LET r == createLeaf(leaves, axis_angle)
  IN  IF r.null
        THEN [ret |-> FALSE, leaves |-> r.leaves, cells |-> heap, full_cells_ |-> full]
        ELSE IF r.leaves[r.leaf] = 0
          THEN LET ptr == Len(heap) + 1
                   rot_cell == [Cell_new EXCEPT !.rot_3dId_ = r.leaf, !.t_3dId_ = tid]
               IN  [ret |-> TRUE,
                    leaves |-> [r.leaves EXCEPT ![r.leaf] = ptr],
                    cells |-> Append(heap,
                       Cell_addRigidTransform(rot_cell, model, Vec3(axis_angle), Vec3(translation))),
                    full_cells_ |-> Append(full, ptr)]
          ELSE LET ptr == r.leaves[r.leaf]
               IN  [ret |-> TRUE,
                    leaves |-> r.leaves,
                    cells |-> [heap EXCEPT ![ptr] =
                       Cell_addRigidTransform(@, model, Vec3(axis_angle), Vec3(translation))],
                    full_cells_ |-> full]

\* the loop over full_cells_
RECURSIVE CellsLoop(_, _, _, _, _)
CellsLoop(heap, full, i, o, counter) ==
  IF i > Len(full) THEN [cells |-> heap, out |-> o, hypotheses_counter |-> counter]
  ELSE LET r == Cell_computeAverageRigidTransformInEntries(heap[full[i]], o, counter)
       IN  CellsLoop([heap EXCEPT ![full[i]] = r.cell], full, i + 1, r.out,
                     r.hypotheses_counter)

RotationSpace_computeAverageRigidTransformInCells(heap, full, o, counter) ==
  CellsLoop(heap, full, 1, o, counter)

-----------------------------------------------------------------------------
(* The rotation space as a state machine *)

InitCluster ==
  /\ rot_leaves = <<>>
  /\ cells = <<>>
  /\ full_cells_ = <<>>
  /\ t_3dId_ = TransId
  /\ out = <<>>
  /\ hypotheses_counter = 0
  /\ accepted = EmptyBag
  /\ last_op = "none"
  /\ last_in = <<>>
  /\ last_ret = FALSE
  /\ num_adds = 0
  /\ rej_on_full = FALSE
  /\ num_avgs = 0
  /\ ins_after_avg = FALSE
  /\ fresh_avg = FALSE
  /\ accepted_late = EmptyBag

AddRigidTransform ==
  /\ num_adds < MaxAdds
  /\ \E model \in Models, raw \in RawTransforms :
       LET aa == raw.aa
           t == raw.t
           r == RotationSpace_addRigidTransform(rot_leaves, cells, full_cells_, t_3dId_,
                                                model, aa, t)
       IN  /\ rot_leaves' = r.leaves
           /\ cells' = r.cells
           /\ full_cells_' = r.full_cells_
           /\ last_ret' = r.ret
           /\ last_in' = [model |-> model, aa |-> aa, t |-> t]
           /\ accepted' = IF r.ret
                            THEN accepted (+) SetToBag({[leaf |-> get3dId(aa), model |-> model,
                                                         aa |-> aa, t |-> t]})
                            ELSE accepted
           /\ rej_on_full' = (rej_on_full \/ (~r.ret /\ full_cells_ # <<>>))
           /\ ins_after_avg' = (ins_after_avg \/ (r.ret /\ num_avgs > 0))
           /\ fresh_avg' = (fresh_avg /\ ~r.ret)
           /\ accepted_late' = IF r.ret /\ num_avgs > 0
                                 THEN accepted_late (+) SetToBag({[leaf |-> get3dId(aa),
                                         model |-> model, aa |-> aa, t |-> t]})
                                 ELSE accepted_late
  /\ last_op' = "add"
  /\ num_adds' = num_adds + 1
  /\ UNCHANGED <<t_3dId_, out, hypotheses_counter, num_avgs>>

ComputeAverageRigidTransformInCells ==
  /\ num_avgs < MaxAvgs
  /\ LET r == RotationSpace_computeAverageRigidTransformInCells(cells, full_cells_, out,
                                                                 hypotheses_counter)
     IN  /\ cells' = r.cells
         /\ out' = r.out
         /\ hypotheses_counter' = r.hypotheses_counter
  /\ last_op' = "avg"
  /\ fresh_avg' = TRUE
  /\ num_avgs' = num_avgs + 1
  /\ UNCHANGED <<rot_leaves, full_cells_, t_3dId_, accepted, last_in, last_ret, num_adds,
                 rej_on_full, ins_after_avg, accepted_late>>

-----------------------------------------------------------------------------
(* ModelLibrary::addModel and ObjRecRANSAC::addModel *)

ObjectNames == {"cup", "box", "can"}
Clouds == {1, 2}
\* user_data: NULL or a pointer
UserData == {0, 7}

\* ModelLibrary::addModel: a new entry of models_ unless the name is in use
ModelLibrary_addModel(models, points, normals, object_name, user_data) ==
  IF object_name \in DOMAIN models
    THEN [ret |-> FALSE, models |-> models]
    ELSE [ret |-> TRUE,
          models |-> [n \in DOMAIN models \cup {object_name} |->
                        IF n = object_name
                          THEN [obj_name_ |-> object_name, points |-> points,
                                normals |-> normals, user_data_ |-> user_data]
                          ELSE models[n]]]

\* the wrapper that reports success whatever the model library says
addModel_AlwaysTrue(models, points, normals, object_name, user_data) ==
  [ModelLibrary_addModel(models, points, normals, object_name, user_data) EXCEPT !.ret = TRUE]

addModel(models, points, normals, object_name, user_data) ==
  ModelLibrary_addModel(models, points, normals, object_name, user_data)

InitLibrary ==
  /\ models_ = <<>>
  /\ addModel_ret = FALSE
  /\ addModel_in = <<>>
  /\ first_added = <<>>
  /\ num_addModel = 0

AddModel ==
  /\ num_addModel < MaxAddModel
  /\ \E cloud \in Clouds, object_name \in ObjectNames, user_data \in UserData :
       LET r == addModel(models_, cloud, cloud, object_name, user_data)
           m == [obj_name_ |-> object_name, points |-> cloud, normals |-> cloud,
                 user_data_ |-> user_data]
       IN  /\ models_' = r.models
           /\ addModel_ret' = r.ret
           /\ addModel_in' = m
           /\ first_added' = IF r.ret /\ object_name \notin DOMAIN first_added
                               THEN [n \in DOMAIN first_added \cup {object_name} |->
                                       IF n = object_name THEN m ELSE first_added[n]]
                               ELSE first_added
  /\ num_addModel' = num_addModel + 1

-----------------------------------------------------------------------------
(* computeNumberOfIterations.  The arguments are rationals; the quotient of  *)
(* the logarithms is modelled by its integer part, computed from the powers  *)
(* of 1-p: for 0 < b < 1 and 0 < a <= 1, k <= ln(a)/ln(b) iff b^k >= a.      *)

RECURSIVE Pow(_, _)
Pow(b, k) == IF k = 0 THEN 1 ELSE b * Pow(b, k - 1)

\* (bn/bd)^k >= an/ad
PowGeq(bn, bd, k, an, ad) == Pow(bn, k) * ad >= an * Pow(bd, k)
\* (bn/bd)^k <= an/ad
PowLeq(bn, bd, k, an, ad) == Pow(bn, k) * ad <= an * Pow(bd, k)

\* the integer part of log (an/ad)/log (bn/bd)
RECURSIVE FloorLogRatio(_, _, _, _, _)
FloorLogRatio(an, ad, bn, bd, k) ==
  IF PowGeq(bn, bd, k + 1, an, ad) THEN FloorLogRatio(an, ad, bn, bd, k + 1) ELSE k

\* p_obj = 0.25f
PObjDen == 4

\* the number of iterations without the + 1.0
computeNumberOfIterations_NoPlusOne(rel_size, prob) ==
  LET pn == rel_size
      pd == PObjDen
  IN  IF pd - pn <= 0
        THEN 1
        ELSE FloorLogRatio(ProbDen - prob, ProbDen, pd - pn, pd, 0)

\* p = p_obj*relative_obj_size_ = rel_size/PObjDen, success_probability = prob/ProbDen;
\* the cast to int truncates log (1.0-success_probability)/log (1.0-p) + 1.0,
\* which is not negative
computeNumberOfIterations(rel_size, prob) ==
  LET pn == rel_size
      pd == PObjDen
  IN  IF pd - pn <= 0
        THEN 1
        ELSE FloorLogRatio(ProbDen - prob, ProbDen, pd - pn, pd, 0) + 1

InitIter ==
  /\ relative_obj_size_ \in 1..MaxRelSize
  /\ success_probability = 0
  /\ num_iterations = 0
  /\ prev_probability = 0
  /\ prev_iterations = 0

ComputeNumberOfIterations ==
  /\ \E prob \in 0..(ProbDen - 1) :
       /\ success_probability' = prob
       /\ num_iterations' = computeNumberOfIterations(relative_obj_size_, prob)
  /\ prev_probability' = success_probability
  /\ prev_iterations' = num_iterations
  /\ UNCHANGED relative_obj_size_

-----------------------------------------------------------------------------
(* compute_oriented_point_pair_signature, in fixed point: a number x is the *)
(* integer nearest to x*SigScale, every operation rounds its result to the  *)
(* nearest such number (halves away from zero), angles are whole degrees.   *)

SigScale == 16

\* n/d rounded to the nearest integer, for d > 0
RoundDiv(n, d) == IF n >= 0 THEN (2 * n + d) \div (2 * d) ELSE -((2 * (-n) + d) \div (2 * d))

RECURSIVE ISqrtFrom(_, _)
ISqrtFrom(n, r) == IF (r + 1) * (r + 1) <= n THEN ISqrtFrom(n, r + 1) ELSE r

\* the square root of n rounded to the nearest integer
RoundSqrt(n) == LET r == ISqrtFrom(n, 0) IN IF n - r * r <= r THEN r ELSE r + 1

\* aux::dot3
dot3(a, b) == RoundDiv(a[1] * b[1] + a[2] * b[2] + a[3] * b[3], SigScale)

\* aux::normalize3: v *= 1/sqrt (dot3 (v, v))
normalize3(v) ==
  LET len == RoundSqrt(dot3(v, v) * SigScale)
      inv_len == RoundDiv(SigScale * SigScale, len)
  IN  [i \in 1..3 |-> RoundDiv(v[i] * inv_len, SigScale)]

\* aux::clamp
clamp(value, min, max) == IF value < min THEN min ELSE IF value > max THEN max ELSE value

\* the arc cosines of -16/16, -15/16 .. 16/16 in degrees
AcosTable == <<180, 160, 151, 144, 139, 133, 129, 124, 120, 116, 112, 108, 104, 101, 97, 94,
               90, 86, 83, 79, 76, 72, 68, 64, 60, 56, 51, 47, 41, 36, 29, 20, 0>>

\* std::acos; out of [-1, 1] the result is a NaN, written -1
acos(x) == IF x < -SigScale \/ x > SigScale THEN -1 ELSE AcosTable[x + SigScale + 1]

\* the signature whose second angle is taken with the line from p1 to p2
compute_oriented_point_pair_signature_NoFlip(p1, n1, p2, n2) ==
  LET cl == normalize3([i \in 1..3 |-> p2[i] - p1[i]])
  IN  << acos(clamp(dot3(n1, cl), -SigScale, SigScale)),
         acos(clamp(dot3(n2, cl), -SigScale, SigScale)),
         acos(clamp(dot3(n1, n2), -SigScale, SigScale)) >>

\* the signature without aux::clamp
compute_oriented_point_pair_signature_NoClamp(p1, n1, p2, n2) ==
  LET cl == normalize3([i \in 1..3 |-> p2[i] - p1[i]])
      cl_neg == [i \in 1..3 |-> -cl[i]]
  IN  << acos(dot3(n1, cl)), acos(dot3(n2, cl_neg)), acos(dot3(n1, n2)) >>

compute_oriented_point_pair_signature(p1, n1, p2, n2) ==
  LET cl == normalize3([i \in 1..3 |-> p2[i] - p1[i]])
      cl_neg == [i \in 1..3 |-> -cl[i]]
  IN  << acos(clamp(dot3(n1, cl), -SigScale, SigScale)),
         acos(clamp(dot3(n2, cl_neg), -SigScale, SigScale)),
         acos(clamp(dot3(n1, n2), -SigScale, SigScale)) >>

\* the points of the scene, in fixed point
ScenePoints ==
  { <<x * SigScale, y * SigScale, z * SigScale>> : x, y, z \in 0..MaxCoord }

\* normals of length 1 up to the rounding of their coordinates:
\* (0,0,1), (1,0,0), (0,-1,0), (0.6,0.8,0), (-0.7,0,0.7), (0.6,0.6,0.6)
SceneNormals ==
  { <<0, 0, 16>>, <<16, 0, 0>>, <<0, -16, 0>>, <<10, 13, 0>>, <<-11, 0, 11>>, <<9, 9, 9>> }

InitSig ==
  /\ opp \in { o \in [p1 : ScenePoints, n1 : SceneNormals, p2 : ScenePoints, n2 : SceneNormals] :
                o.p1 # o.p2 }
  /\ signature = <<>>
  /\ signature_swapped = <<>>

ComputeSignature ==
  /\ signature = <<>>
  /\ signature' = compute_oriented_point_pair_signature(opp.p1, opp.n1, opp.p2, opp.n2)
  /\ signature_swapped' = compute_oriented_point_pair_signature(opp.p2, opp.n2, opp.p1, opp.n1)
  /\ UNCHANGED opp

-----------------------------------------------------------------------------
(* The conflict resolution: buildConflictGraph and filterWeakHypotheses.    *)
(* Confidences are in tenths.                                               *)

\* what a hypothesis can be: a model, a pose and the scene pixels it explains
Candidates ==
  { [obj_model_ |-> "cup", rigid_transform_ |-> 1, explained_pixels_ |-> {1, 2, 3}],
    [obj_model_ |-> "box", rigid_transform_ |-> 2, explained_pixels_ |-> {3, 4}],
    [obj_model_ |-> "cup", rigid_transform_ |-> 3, explained_pixels_ |-> {4, 5}],
    [obj_model_ |-> "can", rigid_transform_ |-> 4, explained_pixels_ |-> {10, 11}] }
Confidences == {7, 8, 9}
ScoredHypotheses ==
  { [obj_model_ |-> c.obj_model_, rigid_transform_ |-> c.rigid_transform_,
     match_confidence_ |-> m, explained_pixels_ |-> c.explained_pixels_] :
       c \in Candidates, m \in Confidences }
IntersectionFractions == { <<1, 10>>, <<1, 2>> }
\* the user_data of the models (NULL for the can)
UserDataOf(name) == IF name = "cup" THEN 7 ELSE IF name = "box" THEN 8 ELSE 0

\* Output::Output
Output(object_name, rigid_transform, match_confidence, user_data) ==
  [object_name_ |-> object_name, rigid_transform_ |-> rigid_transform,
   match_confidence_ |-> match_confidence, user_data_ |-> user_data]

\* two hypotheses conflict if the pixels both explain are more than
\* intersection_fraction_ of the pixels one of them explains
Conflicting(h1, h2, frac) ==
  LET common == Cardinality(h1.explained_pixels_ \cap h2.explained_pixels_)
  IN  \/ common * frac[2] > frac[1] * Cardinality(h1.explained_pixels_)
      \/ common * frac[2] > frac[1] * Cardinality(h2.explained_pixels_)

\* the edges of the conflict graph, one node per hypothesis
buildConflictGraph(hypotheses, frac) ==
  { {i, j} : <<i, j>> \in { q \in (1..Len(hypotheses)) \X (1..Len(hypotheses)) :
                               q[1] < q[2] /\ Conflicting(hypotheses[q[1]], hypotheses[q[2]], frac) } }

\* the nodes by descending confidence; equal confidences in the order of tie
SortByConfidence(hypotheses, tie) ==
  LET n == Len(hypotheses)
      Before(i, j) ==
        \/ hypotheses[i].match_confidence_ > hypotheses[j].match_confidence_
        \/ /\ hypotheses[i].match_confidence_ = hypotheses[j].match_confidence_
           /\ tie[i] < tie[j]
  IN  [k \in 1..n |-> CHOOSE i \in 1..n : Cardinality({ j \in 1..n : Before(j, i) }) = k - 1]

\* take the best remaining node, emit it, remove it and its neighbours
RECURSIVE GreedyLoop(_, _, _, _, _)
GreedyLoop(order, k, edges, removed, chosen) ==
  IF k > Len(order) THEN chosen
  ELSE IF order[k] \in removed THEN GreedyLoop(order, k + 1, edges, removed, chosen)
  ELSE GreedyLoop(order, k + 1, edges,
                  removed \cup {order[k]} \cup { j \in 1..Len(order) : {order[k], j} \in edges },
                  Append(chosen, order[k]))

\* ... without the removal of the neighbours
RECURSIVE GreedyLoopKeepAll(_, _, _, _, _)
GreedyLoopKeepAll(order, k, edges, removed, chosen) ==
  IF k > Len(order) THEN chosen
  ELSE GreedyLoopKeepAll(order, k + 1, edges, removed, Append(chosen, order[k]))

OutputsOf(hypotheses, chosen) ==
  [k \in 1..Len(chosen) |->
     LET h == hypotheses[chosen[k]]
     IN  Output(h.obj_model_, h.rigid_transform_, h.match_confidence_, UserDataOf(h.obj_model_))]

\* the selection that emits every hypothesis
filterWeakHypotheses_KeepAll(hypotheses, edges, tie) ==
  LET chosen == GreedyLoopKeepAll(SortByConfidence(hypotheses, tie), 1, edges, {}, <<>>)
  IN  [selected |-> chosen, recognized_objects |-> OutputsOf(hypotheses, chosen)]

\* the selection that takes the hypotheses as they come, unsorted
filterWeakHypotheses_Unsorted(hypotheses, edges, tie) ==
  LET chosen == GreedyLoop([k \in 1..Len(hypotheses) |-> k], 1, edges, {}, <<>>)
  IN  [selected |-> chosen, recognized_objects |-> OutputsOf(hypotheses, chosen)]

filterWeakHypotheses(hypotheses, edges, tie) ==
  LET chosen == GreedyLoop(SortByConfidence(hypotheses, tie), 1, edges, {}, <<>>)
  IN  [selected |-> chosen, recognized_objects |-> OutputsOf(hypotheses, chosen)]

SeqsUpTo(S, n) == UNION { [1..k -> S] : k \in 0..n }

TieOrders(n) == { f \in [1..n -> 1..n] : \A i, j \in 1..n : f[i] = f[j] => i = j }

InitResolver ==
  /\ accepted_hypotheses_ \in SeqsUpTo(ScoredHypotheses, MaxHypotheses)
  /\ intersection_fraction_ \in IntersectionFractions
  /\ graph = {}
  /\ recognized_objects = <<>>
  /\ selected = <<>>
  /\ rec_stage = "tested"

BuildConflictGraph ==
  /\ rec_stage = "tested"
  /\ graph' = buildConflictGraph(accepted_hypotheses_, intersection_fraction_)
  /\ rec_stage' = "graph"
  /\ UNCHANGED <<accepted_hypotheses_, intersection_fraction_, recognized_objects, selected>>

FilterWeakHypotheses ==
  /\ rec_stage = "graph"
  /\ \E tie \in TieOrders(Len(accepted_hypotheses_)) :
       LET r == filterWeakHypotheses(accepted_hypotheses_, graph, tie)
       IN  /\ recognized_objects' = r.recognized_objects
           /\ selected' = r.selected
  /\ rec_stage' = "filtered"
  /\ UNCHANGED <<accepted_hypotheses_, intersection_fraction_, graph>>

-----------------------------------------------------------------------------
(* computeRigidTransform, in exact arithmetic: a float is a rational, and   *)
(* <<0, 0>> is NaN, which every operation hands on.                         *)

NaN == <<0, 0>>
IsNaN(a) == a[2] = 0
FAdd(a, b) == IF IsNaN(a) \/ IsNaN(b) THEN NaN ELSE QAdd(a, b)
FMul(a, b) == IF IsNaN(a) \/ IsNaN(b) THEN NaN ELSE QMul(a, b)
FSub(a, b) == IF IsNaN(a) \/ IsNaN(b) THEN NaN ELSE QAdd(a, <<-b[1], b[2]>>)
\* the comparison of two floats: NaN equals nothing
FEq(a, b) == ~IsNaN(a) /\ ~IsNaN(b) /\ a = b

\* the square root of a rational that is the square of a rational
IsSquare(n) == ISqrtFrom(n, 0) * ISqrtFrom(n, 0) = n
HasRoot(a) == IsNaN(a) \/ (a[1] >= 0 /\ IsSquare(a[1]) /\ IsSquare(a[2]))
FSqrt(a) == IF IsNaN(a) THEN NaN ELSE <<ISqrtFrom(a[1], 0), ISqrtFrom(a[2], 0)>>

\* aux::diff3 (a, b, c): c = a - b
diff3(a, b) == [i \in 1..3 |-> FSub(a[i], b[i])]
\* aux::sum3 (a, b, c): c = a + b
sum3(a, b) == [i \in 1..3 |-> FAdd(a[i], b[i])]
\* aux::dot3 on exact numbers
dot3_exact(a, b) == FAdd(FAdd(FMul(a[1], b[1]), FMul(a[2], b[2])), FMul(a[3], b[3]))
length3_sqr(v) == dot3_exact(v, v)
\* aux::normalize3 on exact numbers: v times 1/length; the zero vector gives
\* 0 * infinity, which is NaN in every component
normalize3_exact(v) ==
  LET len == FSqrt(length3_sqr(v))
  IN  IF IsNaN(len) \/ len[1] = 0
        THEN <<NaN, NaN, NaN>>
        ELSE [i \in 1..3 |-> FMul(v[i], <<len[2], len[1]>>)]
\* aux::projectOnPlane3 (x, planeNormal, out): out = x - (planeNormal.x) planeNormal
projectOnPlane3(x, planeNormal) ==
  LET dot == dot3_exact(planeNormal, x)
  IN  [i \in 1..3 |-> FSub(x[i], FMul(dot, planeNormal[i]))]
\* aux::cross3 (v1, v2, out)
cross3(v1, v2) ==
  <<FSub(FMul(v1[2], v2[3]), FMul(v1[3], v2[2])),
    FSub(FMul(v1[3], v2[1]), FMul(v1[1], v2[3])),
    FSub(FMul(v1[1], v2[2]), FMul(v1[2], v2[1]))>>
\* aux::mult3x3 (x, y, z, m, out): out = [x|y|z] * m, row major
mult3x3(x, y, z, m) ==
  [k \in 1..9 |->
     LET i == ((k - 1) \div 3) + 1
         j == ((k - 1) % 3) + 1
     IN  FAdd(FAdd(FMul(x[i], m[1][j]), FMul(y[i], m[2][j])), FMul(z[i], m[3][j]))]
\* aux::mult3x3 (m, v, out): out = m * v for the row major matrix m
mult3x3_vec(m, v) ==
  [i \in 1..3 |->
     FAdd(FAdd(FMul(m[3 * (i - 1) + 1], v[1]), FMul(m[3 * (i - 1) + 2], v[2])),
          FMul(m[3 * (i - 1) + 3], v[3]))]

\* the frame of the oriented point pair ((a, a_n), (b, b_n)): lines 557-578
Frame(a, a_n, b, b_n) ==
  LET half == <<1, 2>>
      o == [i \in 1..3 |-> FMul(half, FAdd(a[i], b[i]))]
      x == normalize3_exact(diff3(b, a))
      tmp1 == normalize3_exact(projectOnPlane3(a_n, x))
      tmp2 == normalize3_exact(projectOnPlane3(b_n, x))
      y == normalize3_exact(sum3(tmp1, tmp2))
      z == cross3(x, y)
  IN  [o |-> o, x |-> x, y |-> y, z |-> z]

computeRigidTransform(a1, a1_n, b1, b1_n, a2, a2_n, b2, b2_n) ==
  LET f1 == Frame(a1, a1_n, b1, b1_n)
      f2 == Frame(a2, a2_n, b2, b2_n)
      invFrame1 == <<f1.x, f1.y, f1.z>>
      rot == mult3x3(f2.x, f2.y, f2.z, invFrame1)
      Ro1 == mult3x3_vec(rot, f1.o)
  IN  [k \in 1..12 |-> IF k <= 9 THEN rot[k] ELSE FSub(f2.o[k - 9], Ro1[k - 9])]

\* The oriented points of the example: a position and a unit normal.
OrientedPoints ==
  { [p |-> Vec3(<<0, 0, 0>>), n |-> Vec3(<<0, 0, 1>>)],
    [p |-> Vec3(<<2, 0, 0>>), n |-> Vec3(<<0, 0, 1>>)],
    [p |-> Vec3(<<0, 2, 0>>), n |-> Vec3(<<0, 0, 1>>)],
    [p |-> Vec3(<<0, 0, 0>>), n |-> <<QInt(0), <<3, 5>>, <<4, 5>>>>],
    [p |-> Vec3(<<2, 0, 0>>), n |-> <<QInt(0), <<3, 5>>, <<4, 5>>>>],
    [p |-> Vec3(<<0, 0, 0>>), n |-> Vec3(<<1, 0, 0>>)],
    [p |-> Vec3(<<2, 0, 0>>), n |-> Vec3(<<0, 0, -1>>)] }

\* every length the frame of the pair takes the root of is rational, so that
\* the exact arithmetic computes the frame
Representable(a, b) ==
  LET d == diff3(b.p, a.p)
      x == normalize3_exact(d)
      p1 == projectOnPlane3(a.n, x)
      p2 == projectOnPlane3(b.n, x)
  IN  /\ HasRoot(length3_sqr(d))
      /\ HasRoot(length3_sqr(p1))
      /\ HasRoot(length3_sqr(p2))
      /\ HasRoot(length3_sqr(sum3(normalize3_exact(p1), normalize3_exact(p2))))

\* the pairs of two oriented points at different positions
OrientedPointPairs ==
  { pr \in OrientedPoints \X OrientedPoints : pr[1].p # pr[2].p /\ Representable(pr[1], pr[2]) }

InitTransform ==
  /\ rt_in \in OrientedPointPairs \X OrientedPointPairs
  /\ rt_out = <<>>

ComputeRigidTransform ==
  /\ rt_out = <<>>
  /\ rt_out' = computeRigidTransform(rt_in[1][1].p, rt_in[1][1].n,
                                               rt_in[1][2].p, rt_in[1][2].n,
                                               rt_in[2][1].p, rt_in[2][1].n,
                                               rt_in[2][2].p, rt_in[2][2].n)
  /\ UNCHANGED rt_in

-----------------------------------------------------------------------------
(* Two callers of RotationSpace::addRigidTransform on one rotation space.   *)
(* A call is the sequence of its reads and writes of the shared objects:    *)
(* the leaf (277-278), the cell of the leaf (288-299), the entry of the     *)
(* model (216), and the three read-modify-write statements of               *)
(* Entry::addRigidTransform (172-174). With the lock a call runs from its   *)
(* first step to its last with no step of the other call in between;        *)
(* without it the steps of the two calls interleave freely.                 *)

Threads == {1, 2}

Insertions == { [model |-> m, aa |-> raw.aa, t |-> raw.t] : m \in Models, raw \in RawTransforms }

\* aux::add3 (this->axis_angle_, axis_angle), written back from the value read
Entry_writeAxisAngle_Assign(e, reg, axis_angle) == [e EXCEPT !.axis_angle_ = axis_angle]

Entry_writeAxisAngle(e, reg, axis_angle) == [e EXCEPT !.axis_angle_ = add3(reg, axis_angle)]

\* aux::add3 (this->translation_, translation)
Entry_writeTranslation(e, reg, translation) ==
  [e EXCEPT !.translation_ = add3(reg, translation)]

\* ++num_transforms_
Entry_writeCount(e, reg) == [e EXCEPT !.num_transforms_ = reg + 1]

\* The rotation space of the callers holds what at most one earlier call left.
InitRace ==
  /\ \E first \in {<<>>} \cup { <<i>> : i \in Insertions } :
       LET r == IF first = <<>>
                  THEN [ret |-> FALSE, leaves |-> <<>>, cells |-> <<>>, full_cells_ |-> <<>>]
                  ELSE RotationSpace_addRigidTransform(<<>>, <<>>, <<>>, TransId,
                                                       first[1].model, first[1].aa, first[1].t)
       IN  /\ rot_leaves = r.leaves
           /\ cells = r.cells
           /\ full_cells_ = r.full_cells_
           /\ accepted = IF r.ret
                           THEN SetToBag({[leaf |-> get3dId(first[1].aa),
                                           model |-> first[1].model,
                                           aa |-> first[1].aa, t |-> first[1].t]})
                           ELSE EmptyBag
  /\ t_3dId_ = TransId
  /\ out = <<>>
  /\ hypotheses_counter = 0
  /\ last_op = "none"
  /\ last_in = <<>>
  /\ last_ret = FALSE
  /\ num_adds = 0
  /\ rej_on_full = FALSE
  /\ num_avgs = 0
  /\ ins_after_avg = FALSE
  /\ fresh_avg = FALSE
  /\ accepted_late = EmptyBag
  /\ serialized \in BOOLEAN
  /\ lock = 0
  /\ th_pc = [t \in Threads |-> "start"]
  /\ th_in \in [Threads -> Insertions]
  /\ th_cell = [t \in Threads |-> 0]
  /\ th_reg = [t \in Threads |-> 0]
  /\ th_ret = [t \in Threads |-> FALSE]

raceGhosts == <<t_3dId_, out, hypotheses_counter, last_op, last_in, last_ret, num_adds,
                rej_on_full, num_avgs, ins_after_avg, fresh_avg, accepted_late, serialized,
                th_in>>

\* the entry of the caller's model in the caller's cell
EntryOf(t) == cells[th_cell[t]].model_to_entry_[th_in[t].model]

SetEntry(t, e) == cells' = [cells EXCEPT ![th_cell[t]].model_to_entry_[th_in[t].model] = e]

\* lines 277-285: createLeaf, the NULL test, and the read of the leaf's user data
Lookup(t) ==
  /\ th_pc[t] = "start"
  /\ serialized => lock = 0
  /\ LET r == createLeaf(rot_leaves, th_in[t].aa)
     IN  /\ rot_leaves' = r.leaves
         /\ IF r.null
              THEN /\ th_pc' = [th_pc EXCEPT ![t] = "done"]
                   /\ UNCHANGED <<lock, th_cell, accepted>>
              ELSE /\ th_pc' = [th_pc EXCEPT ![t] = "cell"]
                   /\ lock' = IF serialized THEN t ELSE lock
                   /\ th_cell' = [th_cell EXCEPT ![t] = r.leaves[r.leaf]]
                   /\ accepted' = accepted (+) SetToBag({[leaf |-> r.leaf,
                                     model |-> th_in[t].model,
                                     aa |-> th_in[t].aa, t |-> th_in[t].t]})
  /\ UNCHANGED <<cells, full_cells_, th_reg, th_ret, raceGhosts>>

\* lines 288-297: the cell of the leaf, made, attached and listed if the
\* caller saw none
EnsureCell(t) ==
  /\ th_pc[t] = "cell"
  /\ IF th_cell[t] = 0
       THEN LET ptr == Len(cells) + 1
                leaf == get3dId(th_in[t].aa)
            IN  /\ cells' = Append(cells, [Cell_new EXCEPT !.rot_3dId_ = leaf,
                                                           !.t_3dId_ = t_3dId_])
                /\ rot_leaves' = [rot_leaves EXCEPT ![leaf] = ptr]
                /\ full_cells_' = Append(full_cells_, ptr)
                /\ th_cell' = [th_cell EXCEPT ![t] = ptr]
       ELSE UNCHANGED <<cells, rot_leaves, full_cells_, th_cell>>
  /\ th_pc' = [th_pc EXCEPT ![t] = "entry"]
  /\ UNCHANGED <<lock, accepted, th_reg, th_ret, raceGhosts>>

\* line 216: model_to_entry_[model], which makes the entry if it is not there
FindEntry(t) ==
  /\ th_pc[t] = "entry"
  /\ cells' = [cells EXCEPT ![th_cell[t]].model_to_entry_ =
                 MapPut(@, th_in[t].model, MapAt(@, th_in[t].model))]
  /\ th_pc' = [th_pc EXCEPT ![t] = "read_axis_angle"]
  /\ UNCHANGED <<rot_leaves, full_cells_, lock, accepted, th_cell, th_reg, th_ret, raceGhosts>>

\* line 172, the read
ReadAxisAngle(t) ==
  /\ th_pc[t] = "read_axis_angle"
  /\ th_reg' = [th_reg EXCEPT ![t] = EntryOf(t).axis_angle_]
  /\ th_pc' = [th_pc EXCEPT ![t] = "write_axis_angle"]
  /\ UNCHANGED <<rot_leaves, cells, full_cells_, lock, accepted, th_cell, th_ret, raceGhosts>>

\* line 172, the write
WriteAxisAngle(t) ==
  /\ th_pc[t] = "write_axis_angle"
  /\ SetEntry(t, Entry_writeAxisAngle(EntryOf(t), th_reg[t], Vec3(th_in[t].aa)))
  /\ th_pc' = [th_pc EXCEPT ![t] = "read_translation"]
  /\ UNCHANGED <<rot_leaves, full_cells_, lock, accepted, th_cell, th_reg, th_ret, raceGhosts>>

\* line 173, the read
ReadTranslation(t) ==
  /\ th_pc[t] = "read_translation"
  /\ th_reg' = [th_reg EXCEPT ![t] = EntryOf(t).translation_]
  /\ th_pc' = [th_pc EXCEPT ![t] = "write_translation"]
  /\ UNCHANGED <<rot_leaves, cells, full_cells_, lock, accepted, th_cell, th_ret, raceGhosts>>

\* line 173, the write
WriteTranslation(t) ==
  /\ th_pc[t] = "write_translation"
  /\ SetEntry(t, Entry_writeTranslation(EntryOf(t), th_reg[t], Vec3(th_in[t].t)))
  /\ th_pc' = [th_pc EXCEPT ![t] = "read_count"]
  /\ UNCHANGED <<rot_leaves, full_cells_, lock, accepted, th_cell, th_reg, th_ret, raceGhosts>>

\* line 174, the read
ReadCount(t) ==
  /\ th_pc[t] = "read_count"
  /\ th_reg' = [th_reg EXCEPT ![t] = EntryOf(t).num_transforms_]
  /\ th_pc' = [th_pc EXCEPT ![t] = "write_count"]
  /\ UNCHANGED <<rot_leaves, cells, full_cells_, lock, accepted, th_cell, th_ret, raceGhosts>>

\* line 174, the write, and the return of true (line 302)
WriteCount(t) ==
  /\ th_pc[t] = "write_count"
  /\ SetEntry(t, Entry_writeCount(EntryOf(t), th_reg[t]))
  /\ th_pc' = [th_pc EXCEPT ![t] = "done"]
  /\ th_ret' = [th_ret EXCEPT ![t] = TRUE]
  /\ th_reg' = [th_reg EXCEPT ![t] = 0]
  /\ lock' = 0
  /\ UNCHANGED <<rot_leaves, full_cells_, accepted, th_cell, raceGhosts>>

-----------------------------------------------------------------------------
(* recognize: the stages of the pipeline in the order of the data flow.     *)
(* The sampling loop runs num_iterations times; a draw that finds no second *)
(* point at the pair width is dropped and uses up its iteration.            *)

MaxSceneLeaves == 2

RecognitionModes == {"SAMPLE_OPP", "TEST_HYPOTHESES", "FULL_RECOGNITION"}

\* the success probabilities of the calls, in units of 1/ProbDen
RecognizeProbabilities == {0, ProbDen \div 2}

\* the model libraries of the calls
ModelLibraries ==
  { <<>>,
    ModelLibrary_addModel(<<>>, 1, 1, "cup", 7).models,
    ModelLibrary_addModel(ModelLibrary_addModel(<<>>, 1, 1, "cup", 7).models,
                          2, 2, "box", 0).models }

\* the hypotheses a call before this one left in accepted_hypotheses_
TestData == {<<>>} \cup { <<h>> : h \in { x \in ScoredHypotheses : x.match_confidence_ = 9 } }

\* clearTestData that leaves accepted_hypotheses_ as it is
clearTestData_KeepAccepted(pairs, hypotheses) ==
  [sampled_oriented_point_pairs_ |-> 0, accepted_hypotheses_ |-> hypotheses]

clearTestData(pairs, hypotheses) ==
  [sampled_oriented_point_pairs_ |-> 0, accepted_hypotheses_ |-> <<>>]

\* what testHypotheses can accept of n grouped hypotheses: the scorer keeps
\* or drops each of them, and scores those of the models in the library
SurvivorsOf(n, models) ==
  { h \in SeqsUpTo({ x \in ScoredHypotheses : x.obj_model_ \in DOMAIN models }, MaxHypotheses) :
      /\ Len(h) <= n
      /\ \A i, j \in 1..Len(h) : i < j => h[i].rigid_transform_ < h[j].rigid_transform_ }

InitRecognize ==
  /\ rec_pc = "called"
  /\ rec_mode_ \in RecognitionModes
  /\ scene_leaves \in 0..MaxSceneLeaves
  /\ rec_i = 0
  /\ sampled_oriented_point_pairs_ = 0
  /\ num_hypotheses = 0
  /\ models_ \in ModelLibraries
  /\ addModel_ret = FALSE
  /\ addModel_in = <<>>
  /\ first_added = <<>>
  /\ num_addModel = 0
  /\ relative_obj_size_ = 1
  /\ success_probability \in RecognizeProbabilities
  /\ num_iterations = 0
  /\ prev_probability = 0
  /\ prev_iterations = 0
  /\ accepted_hypotheses_ \in TestData
  /\ intersection_fraction_ \in IntersectionFractions
  /\ graph = {}
  /\ recognized_objects = <<>>
  /\ selected = <<>>
  /\ rec_stage = "idle"

\* what no stage of recognize writes
recognizeFrame == <<models_, addModel_ret, addModel_in, first_added, num_addModel,
                    relative_obj_size_, success_probability, prev_probability,
                    prev_iterations, intersection_fraction_, rec_mode_, scene_leaves>>

\* the start of recognize: the test data are cleared, the scene octree is
\* built, and the number of iterations is computed
Recognize_Begin ==
  /\ rec_pc = "called"
  /\ LET c == clearTestData(sampled_oriented_point_pairs_, accepted_hypotheses_)
     IN  /\ sampled_oriented_point_pairs_' = c.sampled_oriented_point_pairs_
         /\ accepted_hypotheses_' = c.accepted_hypotheses_
  /\ num_iterations' = computeNumberOfIterations(relative_obj_size_, success_probability)
  /\ rec_i' = 0
  /\ rec_pc' = "sample"
  /\ UNCHANGED <<num_hypotheses, graph, recognized_objects, selected, rec_stage, recognizeFrame>>

\* sampleOrientedPointPairs, one iteration that finds a pair: two full
\* leaves at the pair width
SampleOrientedPointPair ==
  /\ rec_pc = "sample"
  /\ rec_i < num_iterations
  /\ scene_leaves >= 2
  /\ sampled_oriented_point_pairs_' = sampled_oriented_point_pairs_ + 1
  /\ rec_i' = rec_i + 1
  /\ UNCHANGED <<rec_pc, num_iterations, num_hypotheses, accepted_hypotheses_, graph,
                 recognized_objects, selected, rec_stage, recognizeFrame>>

\* sampleOrientedPointPairs, one iteration that finds none
DropOrientedPointPair ==
  /\ rec_pc = "sample"
  /\ rec_i < num_iterations
  /\ rec_i' = rec_i + 1
  /\ UNCHANGED <<rec_pc, num_iterations, sampled_oriented_point_pairs_, num_hypotheses,
                 accepted_hypotheses_, graph, recognized_objects, selected, rec_stage,
                 recognizeFrame>>

\* the end of the sampling loop; in the mode SAMPLE_OPP recognize returns
SamplingDone ==
  /\ rec_pc = "sample"
  /\ rec_i >= num_iterations
  /\ rec_pc' = IF rec_mode_ = "SAMPLE_OPP" THEN "returned" ELSE "generate"
  /\ UNCHANGED <<rec_i, num_iterations, sampled_oriented_point_pairs_, num_hypotheses,
                 accepted_hypotheses_, graph, recognized_objects, selected, rec_stage,
                 recognizeFrame>>

\* generateHypotheses: the matches of the pairs in the hash table of the
\* model library, none if there is no model
GenerateHypotheses ==
  /\ rec_pc = "generate"
  /\ \E n \in 0..sampled_oriented_point_pairs_ :
       /\ (models_ = <<>>) => n = 0
       /\ num_hypotheses' = n
  /\ rec_pc' = "group"
  /\ UNCHANGED <<rec_i, num_iterations, sampled_oriented_point_pairs_, accepted_hypotheses_,
                 graph, recognized_objects, selected, rec_stage, recognizeFrame>>

\* groupHypotheses: one representative for each group, at least one if there
\* is a hypothesis
GroupHypotheses ==
  /\ rec_pc = "group"
  /\ \E n \in 0..num_hypotheses :
       /\ (num_hypotheses > 0) => n > 0
       /\ num_hypotheses' = n
  /\ rec_pc' = "test"
  /\ UNCHANGED <<rec_i, num_iterations, sampled_oriented_point_pairs_, accepted_hypotheses_,
                 graph, recognized_objects, selected, rec_stage, recognizeFrame>>

\* testHypotheses: the hypotheses that pass are appended to
\* accepted_hypotheses_; in the mode TEST_HYPOTHESES recognize returns
TestHypotheses ==
  /\ rec_pc = "test"
  /\ \E h \in SurvivorsOf(num_hypotheses, models_) :
       /\ Len(accepted_hypotheses_) + Len(h) <= MaxHypotheses
       /\ accepted_hypotheses_' = accepted_hypotheses_ \o h
  /\ rec_stage' = "tested"
  /\ rec_pc' = IF rec_mode_ = "TEST_HYPOTHESES" THEN "returned" ELSE "resolve"
  /\ UNCHANGED <<rec_i, num_iterations, sampled_oriented_point_pairs_, num_hypotheses, graph,
                 recognized_objects, selected, recognizeFrame>>

\* what the two stages of the conflict resolution do not write
resolveFrame == <<rec_pc, rec_i, num_iterations, sampled_oriented_point_pairs_, num_hypotheses,
                  models_, addModel_ret, addModel_in, first_added, num_addModel,
                  relative_obj_size_, success_probability, prev_probability, prev_iterations,
                  rec_mode_, scene_leaves>>

\* the end of recognize after filterWeakHypotheses
Recognize_Return ==
  /\ rec_pc = "resolve"
  /\ rec_stage = "filtered"
  /\ rec_pc' = "returned"
  /\ UNCHANGED <<rec_i, num_iterations, sampled_oriented_point_pairs_, num_hypotheses,
                 accepted_hypotheses_, graph, recognized_objects, selected, rec_stage,
                 recognizeFrame>>

-----------------------------------------------------------------------------
(* The specifications: one per component, the other components at rest *)

IdleCluster == InitCluster
IdleLibrary == InitLibrary
IdleIter ==
  /\ relative_obj_size_ = 1
  /\ success_probability = 0
  /\ num_iterations = 0
  /\ prev_probability = 0
  /\ prev_iterations = 0
IdleSig ==
  /\ opp = [p1 |-> <<0, 0, 0>>, n1 |-> <<0, 0, 16>>, p2 |-> <<16, 0, 0>>, n2 |-> <<0, 0, 16>>]
  /\ signature = <<>>
  /\ signature_swapped = <<>>
IdleTransform ==
  /\ rt_in = <<>>
  /\ rt_out = <<>>
IdleRace ==
  /\ serialized = TRUE
  /\ lock = 0
  /\ th_pc = <<>>
  /\ th_in = <<>>
  /\ th_cell = <<>>
  /\ th_reg = <<>>
  /\ th_ret = <<>>
IdleRecognize ==
  /\ rec_pc = "none"
  /\ rec_mode_ = "FULL_RECOGNITION"
  /\ scene_leaves = 0
  /\ rec_i = 0
  /\ sampled_oriented_point_pairs_ = 0
  /\ num_hypotheses = 0
IdleResolver ==
  /\ accepted_hypotheses_ = <<>>
  /\ intersection_fraction_ = <<1, 10>>
  /\ graph = {}
  /\ recognized_objects = <<>>
  /\ selected = <<>>
  /\ rec_stage = "tested"

\* the rotation space
StartCluster ==
  InitCluster /\ IdleLibrary /\ IdleIter /\ IdleSig /\ IdleResolver /\ IdleTransform
    /\ IdleRace /\ IdleRecognize
NextCluster ==
  \/ AddRigidTransform
      /\ UNCHANGED <<libraryVars, iterVars, sigVars, transformVars, raceVars, recognizeVars,
                    resolverVars>>
  \/ ComputeAverageRigidTransformInCells
       /\ UNCHANGED <<libraryVars, iterVars, sigVars, transformVars, raceVars, recognizeVars,
                     resolverVars>>
SpecCluster == StartCluster /\ [][NextCluster]_vars

\* the model library
StartLibrary ==
  InitLibrary /\ IdleCluster /\ IdleIter /\ IdleSig /\ IdleResolver /\ IdleTransform
    /\ IdleRace /\ IdleRecognize
NextLibrary == AddModel
    /\ UNCHANGED <<clusterVars, iterVars, sigVars, transformVars, raceVars, recognizeVars,
                  resolverVars>>
SpecLibrary == StartLibrary /\ [][NextLibrary]_vars

\* the number of iterations
StartIter ==
  InitIter /\ IdleCluster /\ IdleLibrary /\ IdleSig /\ IdleResolver /\ IdleTransform
    /\ IdleRace /\ IdleRecognize
NextIter ==
  ComputeNumberOfIterations
      /\ UNCHANGED <<clusterVars, libraryVars, sigVars, transformVars, raceVars, recognizeVars,
                    resolverVars>>
SpecIter == StartIter /\ [][NextIter]_vars

\* the signature
StartSig ==
  InitSig /\ IdleCluster /\ IdleLibrary /\ IdleIter /\ IdleResolver /\ IdleTransform
    /\ IdleRace /\ IdleRecognize
NextSig == ComputeSignature
    /\ UNCHANGED <<clusterVars, libraryVars, iterVars, transformVars, raceVars, recognizeVars,
                  resolverVars>>
SpecSig == StartSig /\ [][NextSig]_vars

\* the rigid transform between two oriented point pairs
StartTransform ==
  InitTransform /\ IdleCluster /\ IdleLibrary /\ IdleIter /\ IdleSig /\ IdleResolver
    /\ IdleRace /\ IdleRecognize
NextTransform ==
  ComputeRigidTransform
    /\ UNCHANGED <<clusterVars, libraryVars, iterVars, sigVars, raceVars, recognizeVars,
                  resolverVars>>
SpecTransform == StartTransform /\ [][NextTransform]_vars

\* the two callers of addRigidTransform
StartRace ==
  InitRace /\ IdleLibrary /\ IdleIter /\ IdleSig /\ IdleTransform /\ IdleResolver /\ IdleRecognize
RaceRest == <<libraryVars, iterVars, sigVars, transformVars, recognizeVars, resolverVars>>
NextRace ==
  \/ \E t \in Threads : Lookup(t) /\ UNCHANGED RaceRest
  \/ \E t \in Threads : EnsureCell(t) /\ UNCHANGED RaceRest
  \/ \E t \in Threads : FindEntry(t) /\ UNCHANGED RaceRest
  \/ \E t \in Threads : ReadAxisAngle(t) /\ UNCHANGED RaceRest
  \/ \E t \in Threads : WriteAxisAngle(t) /\ UNCHANGED RaceRest
  \/ \E t \in Threads : ReadTranslation(t) /\ UNCHANGED RaceRest
  \/ \E t \in Threads : WriteTranslation(t) /\ UNCHANGED RaceRest
  \/ \E t \in Threads : ReadCount(t) /\ UNCHANGED RaceRest
  \/ \E t \in Threads : WriteCount(t) /\ UNCHANGED RaceRest
SpecRace == StartRace /\ [][NextRace]_vars

\* recognize
StartRecognize == InitRecognize /\ IdleCluster /\ IdleSig /\ IdleTransform /\ IdleRace
RecognizeRest == <<clusterVars, sigVars, transformVars, raceVars>>
NextRecognize ==
  \/ Recognize_Begin /\ UNCHANGED RecognizeRest
  \/ SampleOrientedPointPair /\ UNCHANGED RecognizeRest
  \/ DropOrientedPointPair /\ UNCHANGED RecognizeRest
  \/ SamplingDone /\ UNCHANGED RecognizeRest
  \/ GenerateHypotheses /\ UNCHANGED RecognizeRest
  \/ GroupHypotheses /\ UNCHANGED RecognizeRest
  \/ TestHypotheses /\ UNCHANGED RecognizeRest
  \/ rec_pc = "resolve" /\ BuildConflictGraph /\ UNCHANGED <<resolveFrame, RecognizeRest>>
  \/ rec_pc = "resolve" /\ FilterWeakHypotheses /\ UNCHANGED <<resolveFrame, RecognizeRest>>
  \/ Recognize_Return /\ UNCHANGED RecognizeRest
SpecRecognize == StartRecognize /\ [][NextRecognize]_vars
\* recognize is one synchronous call: it takes its next step as long as it
\* has one
FairRecognize == SpecRecognize /\ WF_vars(NextRecognize)

\* the conflict resolution
StartResolver ==
  InitResolver /\ IdleCluster /\ IdleLibrary /\ IdleIter /\ IdleSig /\ IdleTransform
    /\ IdleRace /\ IdleRecognize
NextResolver ==
  \/ BuildConflictGraph
      /\ UNCHANGED <<clusterVars, libraryVars, iterVars, sigVars, transformVars, raceVars,
                    recognizeVars>>
  \/ FilterWeakHypotheses
      /\ UNCHANGED <<clusterVars, libraryVars, iterVars, sigVars, transformVars, raceVars,
                    recognizeVars>>
SpecResolver == StartResolver /\ [][NextResolver]_vars

-----------------------------------------------------------------------------
(* The conflict resolution against the conflict relation *)

Filtered == rec_stage = "filtered"
Emitted == { selected[k] : k \in 1..Len(selected) }
Conf(i) == accepted_hypotheses_[i].match_confidence_
InConflict(i, j) ==
  i # j /\ Conflicting(accepted_hypotheses_[i], accepted_hypotheses_[j], intersection_fraction_)

(* C1: no two hypotheses emitted as outputs conflict with each other.       *)
C1_OutputsConflictFree ==
  Filtered =>
    /\ \A k, l \in 1..Len(selected) : k # l => selected[k] # selected[l]
    /\ \A i, j \in Emitted : ~InConflict(i, j)

\* two conflicting hypotheses and a third one; the best of the two and the
\* third are emitted
C1_Witness ==
  /\ Filtered
  /\ Len(accepted_hypotheses_) = 3
  /\ Len(selected) = 2
  /\ \E i, j \in 1..3 : InConflict(i, j) /\ i \in Emitted /\ j \notin Emitted

(* C2: the outputs are in non-increasing order of confidence and are the    *)
(* hypotheses selected, a hypothesis of the highest confidence is emitted,  *)
(* a hypothesis is left out only if it conflicts with an emitted one whose  *)
(* confidence is not smaller, and a hypothesis in conflict with no emitted  *)
(* one is emitted.                                                          *)
C2_GreedyByConfidence ==
  Filtered =>
    /\ Len(recognized_objects) = Len(selected)
    /\ \A k \in 1..Len(selected) :
         recognized_objects[k] =
           Output(accepted_hypotheses_[selected[k]].obj_model_,
                  accepted_hypotheses_[selected[k]].rigid_transform_,
                  Conf(selected[k]),
                  UserDataOf(accepted_hypotheses_[selected[k]].obj_model_))
    /\ \A k, l \in 1..Len(recognized_objects) :
         k < l => recognized_objects[k].match_confidence_ >= recognized_objects[l].match_confidence_
    /\ accepted_hypotheses_ # <<>> =>
         \E i \in Emitted : \A j \in 1..Len(accepted_hypotheses_) : Conf(i) >= Conf(j)
    /\ \A j \in 1..Len(accepted_hypotheses_) :
         j \notin Emitted => \E i \in Emitted : InConflict(i, j) /\ Conf(i) >= Conf(j)
    /\ \A j \in 1..Len(accepted_hypotheses_) :
         (\A i \in Emitted : ~InConflict(i, j)) => j \in Emitted

\* the hypotheses of the example: 0.9 and 0.8 on {1,2,3}, 0.7 on {10,11},
\* given in ascending order of confidence; the first and the last are emitted
C2_Witness ==
  /\ Filtered
  /\ Len(accepted_hypotheses_) = 3
  /\ accepted_hypotheses_[1].match_confidence_ = 7
  /\ accepted_hypotheses_[1].explained_pixels_ = {10, 11}
  /\ accepted_hypotheses_[2].match_confidence_ = 8
  /\ accepted_hypotheses_[2].explained_pixels_ = {1, 2, 3}
  /\ accepted_hypotheses_[3].match_confidence_ = 9
  /\ accepted_hypotheses_[3].explained_pixels_ = {1, 2, 3}
  /\ selected = <<3, 1>>

-----------------------------------------------------------------------------
(* What the history of the accepted insertions says *)

AcceptedPairs == { <<a.leaf, a.model>> : a \in BagToSet(accepted) }

AcceptedOf(leaf, model) == { a \in BagToSet(accepted) : a.leaf = leaf /\ a.model = model }

RECURSIVE CountOver(_)
CountOver(S) ==
  IF S = {} THEN 0
  ELSE LET a == CHOOSE x \in S : TRUE
       IN  CopiesIn(a, accepted) + CountOver(S \ {a})

\* the sum of component i of the vectors f of the insertions in S
RECURSIVE SumOver(_, _, _)
SumOver(S, f, i) ==
  IF S = {} THEN 0
  ELSE LET a == CHOOSE x \in S : TRUE
       IN  CopiesIn(a, accepted) * a[f][i] + SumOver(S \ {a}, f, i)

Mean3(S, f) == [i \in 1..3 |-> Q(SumOver(S, f, i), CountOver(S))]

AddStep == num_adds' = num_adds + 1
AvgStep == num_avgs' = num_avgs + 1

AllEntries == { <<p, m>> \in (1..Len(cells)) \X Models : m \in DOMAIN cells[p].model_to_entry_ }

\* some (voxel, model) pair that accumulated two different transforms
SomePairOfTwo ==
  \E pr \in AcceptedPairs : Cardinality(AcceptedOf(pr[1], pr[2])) >= 2

-----------------------------------------------------------------------------
(* C4: an axis-angle vector out of the bounds of the rotation space is      *)
(* rejected: addRigidTransform returns false, no cell is created, and the   *)
(* cells, their accumulators and the list of full cells are as before; an   *)
(* axis-angle vector within the bounds is accepted, whatever was rejected   *)
(* before.                                                                  *)
C4_OutOfBoundsRejected ==
  [][AddStep =>
       IF InBounds(last_in'.aa)
         THEN last_ret' = TRUE
         ELSE /\ last_ret' = FALSE
              /\ cells' = cells
              /\ full_cells_' = full_cells_
              /\ rot_leaves' = rot_leaves]_vars

\* a transform was rejected while a cell held transforms, and the next one
\* was accepted
C4_Witness ==
  /\ rej_on_full
  /\ last_op = "add" /\ last_ret = TRUE

(* C5: one call of computeAverageRigidTransformInCells appends exactly one  *)
(* hypothesis for each (leaf, model) pair that received an accepted         *)
(* transform, with the model and the leaf of the pair, appends none for any *)
(* other pair, and adds the number of appended hypotheses to the counter.   *)
C5_OneHypothesisPerPair ==
  [][AvgStep =>
       LET new == SubSeq(out', Len(out) + 1, Len(out'))
       IN  /\ SubSeq(out', 1, Len(out)) = out
           /\ { <<new[i].rot_3dId_, new[i].obj_model_>> : i \in 1..Len(new) } = AcceptedPairs
           /\ Len(new) = Cardinality(AcceptedPairs)
           /\ hypotheses_counter' = hypotheses_counter + Len(new)]_vars

\* an averaging over a leaf with two models and a second leaf
C5_Witness ==
  /\ last_op = "avg"
  /\ Len(full_cells_) >= 2
  /\ \E p \in 1..Len(cells) : Cardinality(DOMAIN cells[p].model_to_entry_) = 2
  /\ hypotheses_counter = 3

(* C6: when every insertion precedes the averaging, the entry of each       *)
(* (leaf, model) pair holds, after the averaging, the sum of the accepted   *)
(* axis-angle vectors of the pair divided by their number, and the same for *)
(* the translations; every pair with an accepted transform has an entry.    *)
C6_MeanOfAccepted ==
  (fresh_avg /\ ~ins_after_avg) =>
     /\ \A pr \in AcceptedPairs :
          \E p \in 1..Len(cells) :
             cells[p].rot_3dId_ = pr[1] /\ pr[2] \in DOMAIN cells[p].model_to_entry_
     /\ \A pe \in AllEntries :
          LET c == cells[pe[1]]
              e == c.model_to_entry_[pe[2]]
              S == AcceptedOf(c.rot_3dId_, pe[2])
          IN  /\ S # {}
              /\ e.axis_angle_ = Mean3(S, "aa")
              /\ e.translation_ = Mean3(S, "t")

\* averaged: a pair of two different transforms, whose mean is no input
C6_Witness ==
  /\ fresh_avg /\ ~ins_after_avg
  /\ SomePairOfTwo
  /\ \E pe \in AllEntries : cells[pe[1]].model_to_entry_[pe[2]].axis_angle_[1] = <<1, 2>>

(* C7: an averaging that follows an averaging with no accepted insertion in *)
(* between leaves every entry (axis-angle, translation, count) as it is.    *)
C7_AverageIdempotent ==
  [][(fresh_avg /\ AvgStep) => cells' = cells]_vars

\* averaged twice after the insertion of two different transforms in one pair
C7_Witness ==
  /\ fresh_avg /\ ~ins_after_avg
  /\ num_avgs >= 2
  /\ SomePairOfTwo

(* C8: every entry of a cell counts at least one transform, every cell in   *)
(* the list of full cells has an entry, and after an averaging (before the  *)
(* next accepted insertion) every entry counts exactly one.                 *)
C8_CountInvariant ==
  /\ \A pe \in AllEntries : cells[pe[1]].model_to_entry_[pe[2]].num_transforms_ >= 1
  /\ \A i \in 1..Len(full_cells_) : DOMAIN cells[full_cells_[i]].model_to_entry_ # {}
  /\ fresh_avg => \A pe \in AllEntries : cells[pe[1]].model_to_entry_[pe[2]].num_transforms_ = 1

\* an entry that counts two transforms next to one that was averaged
C8_Witness ==
  /\ num_avgs >= 1
  /\ \E pe \in AllEntries : cells[pe[1]].model_to_entry_[pe[2]].num_transforms_ = 2
  /\ \E pe \in AllEntries : cells[pe[1]].model_to_entry_[pe[2]].axis_angle_[1] = <<1, 2>>

-----------------------------------------------------------------------------
(* C3: addModel with a name that is in use returns false and leaves the     *)
(* model library as it is; addModel with a new name returns true and        *)
(* registers the model; so every registered name maps to one model, that of *)
(* the first successful call with the name, user_data included.             *)
C3_DuplicateNameRejected ==
  /\ [](/\ DOMAIN models_ = DOMAIN first_added
        /\ \A n \in DOMAIN models_ : models_[n] = first_added[n])
  /\ [][num_addModel' = num_addModel + 1 =>
          IF addModel_in'.obj_name_ \in DOMAIN models_
            THEN addModel_ret' = FALSE /\ models_' = models_
            ELSE /\ addModel_ret' = TRUE
                 /\ DOMAIN models_' = DOMAIN models_ \cup {addModel_in'.obj_name_}
                 /\ models_'[addModel_in'.obj_name_] = addModel_in'
                 /\ \A n \in DOMAIN models_ : models_'[n] = models_[n]]_vars

\* "cup" was added again, with other user data, and the call returned false
C3_Witness ==
  /\ num_addModel >= 2
  /\ addModel_ret = FALSE
  /\ addModel_in.obj_name_ = "cup"
  /\ addModel_in.user_data_ # models_["cup"].user_data_
  /\ Cardinality(DOMAIN models_) = 2

-----------------------------------------------------------------------------
(* computeNumberOfIterations against the logarithms *)

Called == num_iterations # 0
OneMinusPNum == PObjDen - relative_obj_size_

\* n - 1 <= ln(1-P)/ln(1-p) < n
StrictlyAbove(n, prob) ==
  /\ PowGeq(OneMinusPNum, PObjDen, n - 1, ProbDen - prob, ProbDen)
  /\ ~PowGeq(OneMinusPNum, PObjDen, n, ProbDen - prob, ProbDen)

\* n = ceil(ln(1-P)/ln(1-p)): n - 1 < ln(1-P)/ln(1-p) <= n
IsCeil(n, prob) ==
  /\ n >= 0
  /\ PowLeq(OneMinusPNum, PObjDen, n, ProbDen - prob, ProbDen)
  /\ n > 0 => ~PowLeq(OneMinusPNum, PObjDen, n - 1, ProbDen - prob, ProbDen)

\* ln(1-P)/ln(1-p) = k
IsExactly(k, prob) ==
  /\ PowLeq(OneMinusPNum, PObjDen, k, ProbDen - prob, ProbDen)
  /\ PowGeq(OneMinusPNum, PObjDen, k, ProbDen - prob, ProbDen)

Monotone ==
  (prev_iterations # 0 /\ prev_probability <= success_probability)
     => prev_iterations <= num_iterations

(* C9: computeNumberOfIterations returns 1 when p = 0.25*relative_obj_size_ *)
(* is at least 1, and ceil(ln(1-P)/ln(1-p)) otherwise; the result is at     *)
(* least 1 and does not decrease when P increases.  Stated for P > 0: at    *)
(* P = 0 the ceiling is 0, which the claim itself rules out.                *)
C9_CeilOfLogRatio ==
  (Called /\ success_probability > 0) =>
    /\ IF OneMinusPNum <= 0 THEN num_iterations = 1
                            ELSE IsCeil(num_iterations, success_probability)
    /\ num_iterations >= 1
    /\ Monotone

(* C9 as amended: the result is 1 when p >= 1, and otherwise the integer    *)
(* part of ln(1-P)/ln(1-p) plus 1, the least integer strictly above the     *)
(* quotient: the ceiling when the quotient is no integer, the ceiling plus  *)
(* 1 when it is one; it is at least 1 and does not decrease with P.         *)
C9_FloorPlusOne ==
  Called =>
    /\ IF OneMinusPNum <= 0
         THEN num_iterations = 1
         ELSE /\ StrictlyAbove(num_iterations, success_probability)
              /\ \/ IsCeil(num_iterations, success_probability)
                 \/ /\ IsExactly(num_iterations - 1, success_probability)
                    /\ IsCeil(num_iterations - 1, success_probability)
    /\ num_iterations >= 1
    /\ Monotone

\* P = p = 0.25: the quotient is 1 and the result 2, after a call with P = 0
\* that returned 1
C9_Witness ==
  /\ Called
  /\ relative_obj_size_ = 1
  /\ 4 * success_probability = ProbDen
  /\ num_iterations = 2
  /\ prev_iterations = 1

-----------------------------------------------------------------------------
(* C10: for two distinct points with unit normals, the three angles of the  *)
(* signature are in [0, pi] (0 .. 180 degrees), and the signature of the    *)
(* swapped pair ((p2, n2), (p1, n1)) has the same third angle and the first *)
(* two angles exchanged.                                                    *)
C10_SignatureRangeAndSwap ==
  signature # <<>> =>
    /\ \A i \in 1..3 : signature[i] >= 0 /\ signature[i] <= 180
    /\ signature_swapped[3] = signature[3]
    /\ signature_swapped[1] = signature[2]
    /\ signature_swapped[2] = signature[1]

\* a pair whose first two angles differ and are not right angles, and whose
\* normals have a dot product above 1.0 before the clamp
C10_Witness ==
  /\ signature # <<>>
  /\ signature[1] # signature[2]
  /\ signature[1] # 90 /\ signature[2] # 90
  /\ dot3(opp.n1, opp.n2) > SigScale
  /\ signature[3] = 0

-----------------------------------------------------------------------------
(* The accumulators of the rotation space, by leaf and model *)

\* the (leaf, model) pairs that have an accumulator
PairsIn(leaves, heap) ==
  { pr \in (DOMAIN leaves) \X Models :
      leaves[pr[1]] # 0 /\ pr[2] \in DOMAIN heap[leaves[pr[1]]].model_to_entry_ }

EntryIn(leaves, heap, pr) == heap[leaves[pr[1]]].model_to_entry_[pr[2]]

\* the leaves that own a cell
OccupiedIn(leaves) == { l \in DOMAIN leaves : leaves[l] # 0 }

(* C13: an accepted insertion of (v, t) for model m changes the accumulator *)
(* of m in the leaf that owns v and nothing else: its axis-angle sum grows  *)
(* by v, its translation sum by t and its count by one, from zero if the    *)
(* accumulator was not there; the cell of the leaf is made and listed when  *)
(* the leaf had none; the accumulators of the other models in the leaf and  *)
(* those of all other leaves stay as they are.                              *)
C13_OnlyOwnAccumulator ==
  [][(AddStep /\ last_ret') =>
       LET v == last_in'.aa
           t == last_in'.t
           pr == <<get3dId(v), last_in'.model>>
           before == PairsIn(rot_leaves, cells)
           e0 == IF pr \in before THEN EntryIn(rot_leaves, cells, pr) ELSE Entry_new
           e1 == EntryIn(rot_leaves', cells', pr)
       IN  /\ PairsIn(rot_leaves', cells') = before \cup {pr}
           /\ \A i \in 1..3 : e1.axis_angle_[i] = QAdd(e0.axis_angle_[i], QInt(v[i]))
           /\ \A i \in 1..3 : e1.translation_[i] = QAdd(e0.translation_[i], QInt(t[i]))
           /\ e1.num_transforms_ = e0.num_transforms_ + 1
           /\ \A other \in before \ {pr} :
                EntryIn(rot_leaves', cells', other) = EntryIn(rot_leaves, cells, other)
           /\ OccupiedIn(rot_leaves') = OccupiedIn(rot_leaves) \cup {pr[1]}
           /\ cells'[rot_leaves'[pr[1]]].rot_3dId_ = pr[1]
           /\ Len(full_cells_') = Cardinality(OccupiedIn(rot_leaves'))
           /\ SubSeq(full_cells_', 1, Len(full_cells_)) = full_cells_]_vars

\* the last insertion was the second into its accumulator, and another
\* accumulator was there
C13_Witness ==
  /\ last_op = "add" /\ last_ret = TRUE
  /\ LET pr == <<get3dId(last_in.aa), last_in.model>>
     IN  /\ pr \in PairsIn(rot_leaves, cells)
         /\ EntryIn(rot_leaves, cells, pr).num_transforms_ = 2
         /\ PairsIn(rot_leaves, cells) \ {pr} # {}

-----------------------------------------------------------------------------
(* The insertions before and after the first averaging *)

accepted_early == accepted (-) accepted_late

\* the insertions of bag B into the accumulator of the (leaf, model) pair
OfPair(B, pr) == { a \in BagToSet(B) : a.leaf = pr[1] /\ a.model = pr[2] }

RECURSIVE CountIn(_, _)
CountIn(B, S) ==
  IF S = {} THEN 0
  ELSE LET a == CHOOSE x \in S : TRUE
       IN  CopiesIn(a, B) + CountIn(B, S \ {a})

RECURSIVE SumIn(_, _, _, _)
SumIn(B, S, f, i) ==
  IF S = {} THEN 0
  ELSE LET a == CHOOSE x \in S : TRUE
       IN  CopiesIn(a, B) * a[f][i] + SumIn(B, S \ {a}, f, i)

\* the mean of the vectors f of the insertions of B into the pair
MeanIn(B, pr, f) ==
  [i \in 1..3 |-> Q(SumIn(B, OfPair(B, pr), f, i), CountIn(B, OfPair(B, pr)))]

(* C15: after the averaging of an accumulator that held n >= 2 transforms   *)
(* the accumulator is what a new accumulator is after one insertion of      *)
(* their mean: the sums are the mean and the count is 1; so when one more   *)
(* transform v is then inserted and the accumulator is averaged again, it   *)
(* holds (mean + v) / 2, for the axis-angle vector and for the translation, *)
(* with count 1.                                                            *)
C15_AveragedIsFreshWithMean ==
  fresh_avg =>
    \A pr \in PairsIn(rot_leaves, cells) :
      LET e == EntryIn(rot_leaves, cells, pr)
          n == CountIn(accepted_early, OfPair(accepted_early, pr))
          k == CountIn(accepted_late, OfPair(accepted_late, pr))
          mean == MeanIn(accepted_early, pr, "aa")
          mean_t == MeanIn(accepted_early, pr, "t")
          half == Q(1, 2)
      IN  /\ (n >= 2 /\ k = 0) => e = Entry_addRigidTransform(Entry_new, mean, mean_t)
          /\ (n >= 2 /\ k = 1) =>
               LET v == MeanIn(accepted_late, pr, "aa")
                   t == MeanIn(accepted_late, pr, "t")
               IN  /\ e.axis_angle_ = [i \in 1..3 |-> QMul(QAdd(mean[i], v[i]), half)]
                   /\ e.translation_ = [i \in 1..3 |-> QMul(QAdd(mean_t[i], t[i]), half)]
                   /\ e.num_transforms_ = 1

\* the transforms 0 and 1 were averaged to 1/2, a third transform 1 was
\* inserted into the accumulator, and it was averaged again to 3/4 (not 2/3)
C15_Witness ==
  /\ fresh_avg /\ num_avgs >= 2
  /\ \E pr \in PairsIn(rot_leaves, cells) :
       /\ Cardinality(OfPair(accepted_early, pr)) >= 2
       /\ CountIn(accepted_late, OfPair(accepted_late, pr)) = 1
       /\ EntryIn(rot_leaves, cells, pr).axis_angle_[1] = <<3, 4>>

-----------------------------------------------------------------------------
(* The rigid transform against the frames of the two pairs *)

Computed == rt_out # <<>>
Frame1 == Frame(rt_in[1][1].p, rt_in[1][1].n, rt_in[1][2].p, rt_in[1][2].n)
Frame2 == Frame(rt_in[2][1].p, rt_in[2][1].n, rt_in[2][2].p, rt_in[2][2].n)
Rot(i, j) == rt_out[3 * (i - 1) + j]
Trans(i) == rt_out[9 + i]
\* row i of the rotation applied to v
RotRow(i, v) == FAdd(FAdd(FMul(Rot(i, 1), v[1]), FMul(Rot(i, 2), v[2])), FMul(Rot(i, 3), v[3]))
\* R v = w, component by component
MapsTo(v, w) == \A i \in 1..3 : FEq(RotRow(i, v), w[i])
\* R R^T is the identity
Orthonormal ==
  \A i, j \in 1..3 :
    FEq(FAdd(FAdd(FMul(Rot(i, 1), Rot(j, 1)), FMul(Rot(i, 2), Rot(j, 2))),
             FMul(Rot(i, 3), Rot(j, 3))),
        IF i = j THEN QInt(1) ELSE QInt(0))
FrameMapped ==
  /\ \A i \in 1..3 : FEq(FAdd(RotRow(i, Frame1.o), Trans(i)), Frame2.o[i])
  /\ MapsTo(Frame1.x, Frame2.x)
  /\ MapsTo(Frame1.y, Frame2.y)
  /\ MapsTo(Frame1.z, Frame2.z)
  /\ Orthonormal
\* no axis of the frame is NaN
Proper(f) == \A i \in 1..3 : ~IsNaN(f.x[i]) /\ ~IsNaN(f.y[i]) /\ ~IsNaN(f.z[i])

(* C11: the transform computeRigidTransform returns maps the frame of the   *)
(* first pair onto the frame of the second: R o1 + t = o2, R x1 = x2,       *)
(* R y1 = y2, R z1 = z2, and the rotation block is orthonormal.             *)
C11_FrameMappedOntoFrame == Computed => FrameMapped

\* the same for the pairs whose frames have three axes: the points differ,
\* neither normal is along the chord, and the projected normals do not cancel
C11_ProperFramesMapped == (Computed /\ Proper(Frame1) /\ Proper(Frame2)) => FrameMapped

\* a rotation that is no permutation of the axes was computed
C11_ProperWitness ==
  /\ Computed /\ Proper(Frame1) /\ Proper(Frame2)
  /\ \E i, j \in 1..3 : Rot(i, j) = <<4, 5>>

-----------------------------------------------------------------------------
(* The two callers against the multiset of their insertions *)

AllDone == th_pc # <<>> /\ \A t \in Threads : th_pc[t] = "done"

\* what the accumulator of the pair holds after the accepted insertions in
\* any order: their sums and their number
SerialEntry(pr) ==
  [axis_angle_     |-> [i \in 1..3 |-> QInt(SumOver(AcceptedOf(pr[1], pr[2]), "aa", i))],
   translation_    |-> [i \in 1..3 |-> QInt(SumOver(AcceptedOf(pr[1], pr[2]), "t", i))],
   num_transforms_ |-> CountOver(AcceptedOf(pr[1], pr[2]))]

\* the hypotheses an averaging of the rotation space would append, as a set
GroupedHypotheses ==
  LET r == RotationSpace_computeAverageRigidTransformInCells(cells, full_cells_, <<>>, 0)
  IN  { <<r.out[i].rot_3dId_, r.out[i].obj_model_, r.out[i].rigid_transform_.R.rotation_of,
          r.out[i].rigid_transform_.t>> : i \in 1..Len(r.out) }

(* C14: when the calls of addRigidTransform are serialized, the rotation    *)
(* space they leave depends on the multiset of the insertions only, not on  *)
(* their order: the occupied leaves are the leaves of the accepted          *)
(* insertions, each listed once, every (leaf, model) accumulator holds the  *)
(* sums and the number of its insertions, and the grouped hypotheses are    *)
(* the means of the pairs. When the calls are not serialized, an            *)
(* accumulator can only miss insertions: it counts at least one and at most *)
(* the serial number of them.                                               *)
C14_SerialOrderIndependent ==
  AllDone =>
    IF serialized
      THEN /\ PairsIn(rot_leaves, cells) = AcceptedPairs
           /\ DOMAIN rot_leaves = { pr[1] : pr \in AcceptedPairs }
           /\ Len(full_cells_) = Cardinality(DOMAIN rot_leaves)
           /\ { full_cells_[i] : i \in 1..Len(full_cells_) } =
                { rot_leaves[l] : l \in DOMAIN rot_leaves }
           /\ \A pr \in AcceptedPairs : EntryIn(rot_leaves, cells, pr) = SerialEntry(pr)
           /\ GroupedHypotheses =
                { <<pr[1], pr[2], Mean3(AcceptedOf(pr[1], pr[2]), "aa"),
                    Mean3(AcceptedOf(pr[1], pr[2]), "t")>> : pr \in AcceptedPairs }
      ELSE /\ PairsIn(rot_leaves, cells) \subseteq AcceptedPairs
           /\ \A pr \in PairsIn(rot_leaves, cells) :
                /\ EntryIn(rot_leaves, cells, pr).num_transforms_ >= 1
                /\ EntryIn(rot_leaves, cells, pr).num_transforms_ <= SerialEntry(pr).num_transforms_

\* two calls that were not serialized wrote into one accumulator, both
\* returned true, and the accumulator counts fewer insertions than were made
C14_Witness ==
  /\ AllDone /\ ~serialized
  /\ th_ret[1] /\ th_ret[2]
  /\ th_cell[1] = th_cell[2] /\ th_in[1].model = th_in[2].model
  /\ LET pr == <<get3dId(th_in[1].aa), th_in[1].model>>
     IN  /\ pr \in PairsIn(rot_leaves, cells)
         /\ EntryIn(rot_leaves, cells, pr).num_transforms_ < SerialEntry(pr).num_transforms_

-----------------------------------------------------------------------------
(* recognize: its end and its empty results *)

Returned == rec_pc = "returned"

====
